---- MODULE Spec2Model ----
(***************************************************************************)
(* StokerCloudClientV16 (src/src/stokercloud_v16/client.py): the session   *)
(* token, login, fetch_data with its retry-by-recursion, get_consumption   *)
(* and set_param, as a state machine whose steps run from one network      *)
(* suspension point to the next.                                           *)
(***************************************************************************)
EXTENDS Integers, Sequences, FiniteSets, TLC

VARIABLES token, issued, task

vars == <<token, issued, task>>

(* ------------------------------ bounds --------------------------------- *)

\* coroutines that may call into one client instance
NumTasks == 2
\* tokens the server issues before it stops accepting the credentials
MaxTokens == 3

Tasks == 1..NumTasks
\* the task that runs alone under Spec
MainTask == CHOOSE p \in Tasks : \A q \in Tasks : p <= q

(* ------------------------- Python values ------------------------------- *)

\* self.token: None, the empty string, or a token issued by the server
None == 0
EmptyStr == -1
Truthy(tok) == tok > 0

\* text is a tuple of one-character strings
Str_dot == "."
Str_comma == ","

\* JSON values as received from response.json()
JNull == [t |-> "null"]
JStr(s) == [t |-> "str", s |-> s]
JNum(n) == [t |-> "num", n |-> n]
JList(l) == [t |-> "list", l |-> l]
JDict(d) == [t |-> "dict", d |-> d]
\* a body for which response.json() raises
NonJson == [t |-> "nonjson"]

IsDict(j) == j.t = "dict"
IsList(j) == j.t = "list"
\* dict.get(key, default) and dict.get(key)
DictGetOr(j, key, default) == IF key \in DOMAIN j.d THEN j.d[key] ELSE default
DictGet(j, key) == DictGetOr(j, key, JNull)
EmptyDict == JDict(<<>>)

(* ------------------------- _safe_float --------------------------------- *)

\* floats are held as integers counting hundredths
Scale == 100
DigitChars == {"0", "1", "2", "3", "4", "5", "6", "7", "8", "9"}
DigitVal == [c \in DigitChars |->
               CASE c = "0" -> 0 [] c = "1" -> 1 [] c = "2" -> 2 [] c = "3" -> 3
                 [] c = "4" -> 4 [] c = "5" -> 5 [] c = "6" -> 6 [] c = "7" -> 7
                 [] c = "8" -> 8 [] c = "9" -> 9]

RECURSIVE DigitsVal(_)
DigitsVal(ds) == IF ds = <<>> THEN 0
                 ELSE 10 * DigitsVal(SubSeq(ds, 1, Len(ds) - 1)) + DigitVal[ds[Len(ds)]]

Str_None == <<"N", "o", "n", "e">>
Str_Unknown == <<"U", "n", "k", "n", "o", "w", "n">>
\* text no float() call accepts: the str() of a list or of a dict
Str_Brackets == <<"[", "]">>

\* str(val)
PyStr(val) == CASE val.t = "str" -> val.s
                [] val.t = "null" -> Str_None
                [] OTHER -> Str_Brackets

\* str.replace(',', '.')
ReplaceComma(s) == [i \in 1..Len(s) |-> IF s[i] = Str_comma THEN Str_dot ELSE s[i]]

\* float(s) for text made of a sign, digits and dots, with at most two
\* decimals: [ok |-> FALSE] stands for ValueError
ParseFloat(s) ==
    LET signed == Len(s) > 0 /\ s[1] \in {"-", "+"}
        body == IF signed THEN Tail(s) ELSE s
        dots == {i \in 1..Len(body) : body[i] = Str_dot}
        digs == {i \in 1..Len(body) : body[i] \in DigitChars}
        dot == IF dots = {} THEN Len(body) + 1 ELSE CHOOSE i \in dots : TRUE
        ip == SubSeq(body, 1, dot - 1)
        fp == SubSeq(body, dot + 1, Len(body))
        frac == IF Len(fp) = 0 THEN 0
                ELSE IF Len(fp) = 1 THEN 10 * DigitsVal(fp)
                ELSE DigitsVal(SubSeq(fp, 1, 2))
        mag == Scale * DigitsVal(ip) + frac
    IN  IF Cardinality(dots) <= 1 /\ digs # {}
           /\ Cardinality(dots) + Cardinality(digs) = Len(body)
        THEN [ok |-> TRUE, n |-> IF signed /\ s[1] = "-" THEN 0 - mag ELSE mag]
        ELSE [ok |-> FALSE, n |-> 0]

\* _safe_float: the except clause turns every failure into 0.0
_safe_float(val) ==
    IF val.t = "num" THEN val.n
    ELSE LET r == ParseFloat(ReplaceComma(PyStr(val)))
         IN  IF r.ok THEN r.n ELSE 0

(* ------------------------- _parse_response ----------------------------- *)

\* the local helper flatten_list: a later record with the same id wins
flatten_list(source) ==
    IF IsList(source)
    THEN LET items == {i \in 1..Len(source.l) :
                          IsDict(source.l[i]) /\ "id" \in DOMAIN source.l[i].d}
             ids == {source.l[i].d["id"] : i \in items}
             last(k) == CHOOSE i \in items :
                           /\ source.l[i].d["id"] = k
                           /\ \A j \in items : source.l[j].d["id"] = k => j <= i
         IN  JDict([k \in ids |-> DictGet(source.l[last(k)], "value")])
    ELSE EmptyDict

\* front.get(...) and misc.get(...) raise AttributeError on a non-dict
ParseRaises(data) ==
    \/ ~IsDict(DictGetOr(data, "frontdata", EmptyDict))
    \/ ~IsDict(DictGetOr(data, "miscdata", EmptyDict))

_parse_response(data) ==
    LET front == DictGetOr(data, "frontdata", EmptyDict)
        misc == DictGetOr(data, "miscdata", EmptyDict)
    IN  [boiler_temp |-> _safe_float(DictGet(front, "boilertemp")),
         state |-> IF IsDict(DictGet(misc, "state"))
                   THEN DictGet(DictGetOr(misc, "state", EmptyDict), "value")
                   ELSE JStr(Str_Unknown),
         attributes |-> [front |-> IF IsDict(front) THEN front ELSE EmptyDict,
                         boiler |-> flatten_list(DictGet(data, "boilerdata")),
                         dhw |-> flatten_list(DictGet(data, "dhwdata")),
                         hopper |-> flatten_list(DictGet(data, "hopperdata")),
                         regulation |-> flatten_list(DictGet(data, "regulationdata")),
                         ignition |-> flatten_list(DictGet(data, "ignitiondata"))]]

(* ------------------------- server replies ------------------------------ *)

JBool(b) == [t |-> "bool", b |-> b]
\* a session token inside a login reply
JTok(k) == [t |-> "tok", k |-> k]

Str_62c3 == <<"6", "2", ",", "3">>
Str_NA == <<"N", "/", "A">>
Str_Heating == <<"H", "e", "a", "t", "i", "n", "g">>
Str_a == <<"a">>
Str_1 == <<"1">>
Str_x == <<"x">>

\* a reply, or the transport failing (connection error, the request's own timeout)
Reply(status, body) == [exc |-> FALSE, status |-> status, body |-> body]
TransportError == [exc |-> TRUE, status |-> 0, body |-> NonJson]

Statuses == {200, 401, 500}

\* login.php bodies: the credentials are accepted only while the server
\* still has a token to issue
LoginFailBodies ==
    {NonJson, JList(<<>>), JNull, JDict([success |-> JBool(FALSE)]),
     JDict([token |-> JNull]), JDict([token |-> JStr(<<>>)])}
LoginReplies(n) ==
    {TransportError} \cup {Reply(200, b) : b \in LoginFailBodies}
      \cup (IF n < MaxTokens THEN {Reply(200, JDict([token |-> JTok(n + 1)]))} ELSE {})

\* controllerdata2.php bodies
Str_boilertemp == <<"b", "o", "i", "l", "e", "r", "t", "e", "m", "p">>
FrontShapes ==
    {JDict([boilertemp |-> JStr(Str_62c3)]), JDict([boilertemp |-> JStr(Str_NA)]),
     JDict([boilertemp |-> JStr(Str_None)]), JDict([boilertemp |-> JStr(<<>>)]),
     JDict([boilertemp |-> JNull]),
     JList(<<JDict([id |-> JStr(Str_boilertemp), value |-> JStr(Str_62c3)])>>), JNull}
MiscShapes ==
    {<<>>, "miscdata" :> JDict([state |-> JDict([value |-> JStr(Str_Heating)])]),
     "miscdata" :> JList(<<>>)}
BoilerShapes ==
    {<<>>,
     "boilerdata" :> JList(<<JDict([id |-> JStr(Str_a), value |-> JStr(Str_1)]),
                             JDict([novalue |-> JStr(Str_x)])>>),
     "boilerdata" :> JDict([a |-> JStr(Str_NA)])}
\* each section varies on its own around the well-formed reply
BaseFront == JDict([boilertemp |-> JStr(Str_62c3)])
BaseMisc == "miscdata" :> JDict([state |-> JDict([value |-> JStr(Str_Heating)])])
PrimaryBodies ==
    {NonJson, JList(<<>>), JNull, JDict([success |-> JBool(FALSE)])}
      \cup {JDict(("frontdata" :> f) @@ BaseMisc) : f \in FrontShapes}
      \cup {JDict(("frontdata" :> BaseFront) @@ m) : m \in MiscShapes}
      \cup {JDict(("frontdata" :> BaseFront) @@ BaseMisc @@ b) : b \in BoilerShapes}
PrimaryReplies == {TransportError} \cup {Reply(st, b) : st \in Statuses, b \in PrimaryBodies}

(* ------------------------- return values ------------------------------- *)

Pending == [type |-> "pending"]
RetDict(d) == [type |-> "dict", val |-> d]
RetList(l) == [type |-> "list", val |-> l]
RetBool(b) == [type |-> "bool", val |-> b]
\* the {} of fetch_data
EmptySnapshot == RetDict(<<>>)

(* ------------------------- _refresh_token ------------------------------ *)

\* the Python value a JSON token field becomes
PyToken(j) == CASE j.t = "tok" -> j.k
                [] j.t = "null" -> None
                [] OTHER -> EmptyStr

\* `not self.token`
not_token(tok) == ~Truthy(tok)

\* _refresh_token without its outer except clause
_refresh_token_uncaught(tok, r) ==
    IF r.exc THEN [token |-> tok, raised |-> TRUE]
    ELSE IF r.body = NonJson THEN [token |-> tok, raised |-> FALSE]
    ELSE IF IsList(r.body) THEN [token |-> tok, raised |-> FALSE]
    ELSE IF IsDict(r.body)
         THEN [token |-> PyToken(DictGet(r.body, "token")), raised |-> FALSE]
    ELSE [token |-> tok, raised |-> TRUE]

\* self.token after the login reply r, and whether an exception leaves the
\* method: the outer except clause catches the transport error and the
\* AttributeError of data.get on a non-dict, the inner one the JSON error
_refresh_token(tok, r) ==
    IF r.exc THEN [token |-> tok, raised |-> FALSE]
    ELSE IF r.body = NonJson THEN [token |-> tok, raised |-> FALSE]
    ELSE IF IsList(r.body) THEN [token |-> tok, raised |-> FALSE]
    ELSE IF IsDict(r.body)
         THEN [token |-> PyToken(DictGet(r.body, "token")), raised |-> FALSE]
    ELSE [token |-> tok, raised |-> FALSE]

(* ------------------------- text helpers -------------------------------- *)

Str_dhwwanted == <<"d", "h", "w", "w", "a", "n", "t", "e", "d">>
Str_wantedboilertemp == <<"-", "w", "a", "n", "t", "e", "d", "b", "o", "i", "l", "e", "r", "t", "e", "m", "p">>
Str_regulation_max_power == <<"r", "e", "g", "u", "l", "a", "t", "i", "o", "n", ".", "m", "a", "x", "_", "p", "o", "w", "e", "r">>
Str_regulation_min_power == <<"r", "e", "g", "u", "l", "a", "t", "i", "o", "n", ".", "m", "i", "n", "_", "p", "o", "w", "e", "r">>
Str_ignition_pellets == <<"i", "g", "n", "i", "t", "i", "o", "n", ".", "p", "e", "l", "l", "e", "t", "s">>
Str_hot_water_temp == <<"h", "o", "t", "_", "w", "a", "t", "e", "r", ".", "t", "e", "m", "p">>
Str_hot_water == <<"h", "o", "t", "_", "w", "a", "t", "e", "r">>
Str_boiler_temp == <<"b", "o", "i", "l", "e", "r", ".", "t", "e", "m", "p">>
Str_regulation == <<"r", "e", "g", "u", "l", "a", "t", "i", "o", "n">>
Str_igniter == <<"i", "g", "n", "i", "t", "e", "r">>
Str_fan_speed == <<"f", "a", "n", ".", "s", "p", "e", "e", "d">>
Str_fan == <<"f", "a", "n">>
Str_OK == <<"O", "K">>
Str_ok == <<"o", "k">>
Str_status0s == <<"{", "\"", "s", "t", "a", "t", "u", "s", "\"", ":", "\"", "0", "\"", "}">>
Str_status0 == <<"{", "\"", "s", "t", "a", "t", "u", "s", "\"", ":", "0", "}">>
Str_error == <<"e", "r", "r", "o", "r">>
Str_token == <<"t", "o", "k", "e", "n">>
Str_months == <<"m", "o", "n", "t", "h", "s">>
Str_12 == <<"1", "2">>
Str_months12 == <<"m", "o", "n", "t", "h", "s", "=", "1", "2">>
Str_abc == <<"a", "=", "b", "=", "c">>
Str_two == <<"m", "o", "n", "t", "h", "s", "=", "1", "2", "&", "a", "=", "1">>
Str_tokenx == <<"t", "o", "k", "e", "n", "=", "x">>

LowerChars == <<"a", "b", "c", "d", "e", "f", "g", "h", "i", "j", "k", "l", "m",
                "n", "o", "p", "q", "r", "s", "t", "u", "v", "w", "x", "y", "z">>
UpperChars == <<"A", "B", "C", "D", "E", "F", "G", "H", "I", "J", "K", "L", "M",
                "N", "O", "P", "Q", "R", "S", "T", "U", "V", "W", "X", "Y", "Z">>
\* str.upper()
Upper(s) == [i \in 1..Len(s) |->
               IF \E j \in 1..26 : LowerChars[j] = s[i]
               THEN UpperChars[CHOOSE j \in 1..26 : LowerChars[j] = s[i]]
               ELSE s[i]]
\* sub in s
Contains(sub, s) ==
    \E i \in 1..(Len(s) - Len(sub) + 1) : SubSeq(s, i, i + Len(sub) - 1) = sub

\* str.split(sep) for a one-character sep
RECURSIVE Split(_, _)
Split(s, sep) ==
    IF \E i \in 1..Len(s) : s[i] = sep
    THEN LET i == CHOOSE k \in 1..Len(s) : s[k] = sep /\ \A j \in 1..(k - 1) : s[j] # sep
         IN  <<SubSeq(s, 1, i - 1)>> \o Split(SubSeq(s, i + 1, Len(s)), sep)
    ELSE <<s>>

(* ------------------------- set_param helpers --------------------------- *)

\* longest key made of KeyAlphabet that set_param is called with
MaxKeyLen == 2
KeyAlphabet == {"a", Str_dot}

\* the mapping table of set_param
mapping ==
    (Str_dhwwanted :> [menu |-> Str_hot_water_temp, name |-> Str_hot_water_temp])
    @@ (Str_wantedboilertemp :> [menu |-> Str_boiler_temp, name |-> Str_boiler_temp])
    @@ (Str_regulation_max_power :> [menu |-> Str_regulation, name |-> Str_regulation_max_power])
    @@ (Str_regulation_min_power :> [menu |-> Str_regulation, name |-> Str_regulation_min_power])
    @@ (Str_ignition_pellets :> [menu |-> Str_igniter, name |-> Str_ignition_pellets])

\* Fallback without the split
Fallback_wholeKey(read_key) == [menu |-> read_key, name |-> read_key]

\* the else branch: read_key.split('.')[0] if '.' in read_key else read_key
Fallback(read_key) ==
    [menu |-> IF Contains(<<Str_dot>>, read_key) THEN Split(read_key, Str_dot)[1]
              ELSE read_key,
     name |-> read_key]

\* menu and name of the write request
WriteTarget(read_key) ==
    IF read_key \in DOMAIN mapping THEN mapping[read_key] ELSE Fallback(read_key)

\* the float argument: a finite number in hundredths, or nan, inf, -inf
Finite(n) == [kind |-> "finite", n |-> n]
NaN == [kind |-> "nan", n |-> 0]
PosInf == [kind |-> "inf", n |-> 1]
NegInf == [kind |-> "inf", n |-> -1]

\* round(): to the nearest integer, a tie to the even one
PyRound(n) ==
    LET q == n \div Scale
        r == n % Scale
    IN  IF 2 * r < Scale THEN q
        ELSE IF 2 * r > Scale THEN q + 1
        ELSE IF q % 2 = 0 THEN q ELSE q + 1

\* int(round(float(value))): ValueError on nan, OverflowError on an infinity
IntRoundFloat(value) ==
    IF value.kind = "finite" THEN [raised |-> FALSE, n |-> PyRound(value.n)]
    ELSE [raised |-> TRUE, n |-> 0]

\* updatevalue.php replies: a status and the text of the body
WriteTexts == {Str_OK, Str_ok, Str_status0s, Str_status0, Str_error, Str_token, <<>>}
WriteReplies == {TransportError} \cup {Reply(st, JStr(x)) : st \in Statuses, x \in WriteTexts}

\* the value set_param returns for the reply r
WriteResult(r) ==
    IF r.exc THEN FALSE
    ELSE r.status = 200 /\ Contains(Str_OK, Upper(r.body.s))

(* ------------------------- get_consumption helpers --------------------- *)

\* dict(item.split("=") for item in query_string.split("&")); the bare
\* except makes it {} when an item does not split in two
QueryParams(query_string) ==
    LET items == Split(query_string, "&")
        parts(i) == Split(items[i], "=")
        last(k) == CHOOSE i \in 1..Len(items) :
                      /\ parts(i)[1] = k
                      /\ \A j \in 1..Len(items) : parts(j)[1] = k => j <= i
    IN  IF \A i \in 1..Len(items) : Len(parts(i)) = 2
        THEN [k \in {parts(i)[1] : i \in 1..Len(items)} |-> JStr(parts(last(k))[2])]
        ELSE <<>>

\* q_params["token"] = self.token
WithToken(q_params, tok) == (Str_token :> JTok(tok)) @@ q_params

\* getconsumption.php replies
ConsumptionBodies == {NonJson, JList(<<>>), JList(<<JNum(1)>>), JDict(<<>>), JNull}
ConsumptionReplies ==
    {TransportError} \cup {Reply(st, b) : st \in Statuses, b \in ConsumptionBodies}

\* ConsumptionResult without the test of response.status
ConsumptionResult_anyStatus(r) ==
    IF r.exc THEN RetList(<<>>)
    ELSE IF IsList(r.body) THEN RetList(r.body.l)
    ELSE RetList(<<>>)

\* the value get_consumption returns for the reply r; the JSON error of a
\* 200 reply is caught by the except clause
ConsumptionResult(r) ==
    IF r.exc THEN RetList(<<>>)
    ELSE IF r.status = 200 /\ IsList(r.body) THEN RetList(r.body.l)
    ELSE RetList(<<>>)

(* ------------------------- inputs -------------------------------------- *)

GeneratedKeys == UNION {[1..n -> KeyAlphabet] : n \in 1..MaxKeyLen}
Keys == DOMAIN mapping \cup {Str_fan_speed, Str_igniter} \cup GeneratedKeys
Values == {NaN, PosInf, NegInf, Finite(5050), Finite(5150)}
Queries == {Str_months12, Str_abc, Str_two, Str_tokenx, <<>>}

(* ------------------------- one call in progress ------------------------ *)

NoRequest == [kind |-> "none", token |-> None]

\* what the call received, in order: "Lok" and "Lfail" login replies, "P401"
\* and "P" primary replies, "T" the expiry of the outer timeout block
LoginTag(ok) == IF ok THEN "Lok" ELSE "Lfail"
PrimaryTag(r) == IF ~r.exc /\ r.status = 401 THEN "P401" ELSE "P"

\* pc: where the coroutine is suspended; site: the line of the pending
\* `await self._refresh_token()`; retry: the retry argument of the running
\* fetch_data frame; outer: where the top-level fetch_data frame waits for
\* the nested one ("try": inside its async_timeout block, "except": in its
\* except clause); req: the data request last sent; the rest records what
\* the call did
IdleTask ==
    [pc |-> "idle", op |-> "none", site |-> "none", retry |-> TRUE, outer |-> "none",
     req |-> NoRequest, reply |-> TransportError,
     logins |-> 0, loginOK |-> 0, primaries |-> 0, writes |-> 0,
     lbefore |-> None, lreply |-> TransportError, lafter |-> None,
     ret |-> Pending, raised |-> FALSE, startTok |-> None, rejected |-> {},
     key |-> <<>>, value |-> Finite(0), query |-> <<>>, hist |-> <<>>]

NewCall(opname, tok) == [IdleTask EXCEPT !.op = opname, !.startTok = tok]

\* the request of _refresh_token leaves
SendLogin(s, at) == [s EXCEPT !.pc = "login", !.site = at, !.logins = @ + 1]

\* params = {"screen": ..., "token": self.token} and the request leaves
SendPrimary(s, tok) ==
    [s EXCEPT !.pc = "primary", !.site = "none", !.primaries = @ + 1,
              !.req = [kind |-> "controllerdata2", token |-> tok]]

SendConsumption(s, tok) ==
    [s EXCEPT !.pc = "consumption", !.site = "none",
              !.req = [kind |-> "getconsumption", token |-> tok,
                       params |-> WithToken(QueryParams(s.query), tok)]]

SendWrite(s, tok, target, n) ==
    [s EXCEPT !.pc = "write", !.site = "none", !.writes = @ + 1,
              !.req = [kind |-> "updatevalue", token |-> tok,
                       menu |-> target.menu, name |-> target.name, value |-> n]]

Return(s, v) == [s EXCEPT !.pc = "done", !.site = "none", !.ret = v]
Raise(s) == [s EXCEPT !.pc = "done", !.site = "none", !.raised = TRUE]

\* EnterFetch without the `if not self.token` head
EnterFetch_noLogin(s, tok, retryArg, outerAt) ==
    SendPrimary([s EXCEPT !.retry = retryArg, !.outer = outerAt], tok)

\* the head of fetch_data(retry): log in when there is no token, else send
\* the primary request with the token read now
EnterFetch(s, tok, retryArg, outerAt) ==
    LET f == [s EXCEPT !.retry = retryArg, !.outer = outerAt]
    IN  IF not_token(tok) THEN SendLogin(f, "L56") ELSE SendPrimary(f, tok)

\* set_param once a token is stored: resolve the target, build params (the
\* conversion of value is outside every try), send the request
SetParamBody(s, tok) ==
    LET v == IntRoundFloat(s.value)
    IN  IF v.raised THEN Raise(s) ELSE SendWrite(s, tok, WriteTarget(s.key), v.n)

\* AfterLogin whose retry after a 401 sends the params built before the login
AfterLogin_staleParams(s, tok) ==
    CASE s.site = "L56" ->
           IF not_token(tok) THEN Return(s, EmptySnapshot) ELSE SendPrimary(s, tok)
      [] s.site = "L72" ->
           SendPrimary([s EXCEPT !.retry = FALSE, !.outer = "try"], s.req.token)
      [] s.site = "L103" -> EnterFetch(s, tok, FALSE, "except")
      [] s.site = "L113" ->
           IF not_token(tok) THEN Return(s, RetList(<<>>)) ELSE SendConsumption(s, tok)
      [] s.site = "L140" ->
           IF not_token(tok) THEN Return(s, RetBool(FALSE)) ELSE SetParamBody(s, tok)

\* AfterLogin without the second `if not self.token` of fetch_data
AfterLogin_unchecked(s, tok) ==
    CASE s.site = "L56" -> SendPrimary(s, tok)
      [] s.site = "L72" -> EnterFetch(s, tok, FALSE, "try")
      [] s.site = "L103" -> EnterFetch(s, tok, FALSE, "except")
      [] s.site = "L113" ->
           IF not_token(tok) THEN Return(s, RetList(<<>>)) ELSE SendConsumption(s, tok)
      [] s.site = "L140" ->
           IF not_token(tok) THEN Return(s, RetBool(FALSE)) ELSE SetParamBody(s, tok)

\* what follows `await self._refresh_token()` at each call site
AfterLogin(s, tok) ==
    CASE s.site = "L56" ->
           IF not_token(tok) THEN Return(s, EmptySnapshot) ELSE SendPrimary(s, tok)
      [] s.site = "L72" -> EnterFetch(s, tok, FALSE, "try")
      [] s.site = "L103" -> EnterFetch(s, tok, FALSE, "except")
      [] s.site = "L113" ->
           IF not_token(tok) THEN Return(s, RetList(<<>>)) ELSE SendConsumption(s, tok)
      [] s.site = "L140" ->
           IF not_token(tok) THEN Return(s, RetBool(FALSE)) ELSE SetParamBody(s, tok)

\* the except clause of fetch_data
ExceptClause(s, tok) ==
    IF s.retry THEN [token |-> None, s |-> SendLogin(s, "L103")]
    ELSE [token |-> tok, s |-> Return(s, EmptySnapshot)]

\* a reply that shows the token of the request to be invalid
Symptom(r) ==
    /\ ~r.exc
    /\ \/ r.status = 401
       \/ r.body # NonJson /\ ~IsDict(r.body)
       \/ IsDict(r.body) /\ "frontdata" \notin DOMAIN r.body.d

\* fetch_data from the reply of the primary request on
AfterPrimary(s0, tok, r) ==
    LET s == [s0 EXCEPT !.reply = r, !.hist = Append(@, PrimaryTag(r)),
                        !.rejected = IF Symptom(r) THEN @ \cup {s0.req.token} ELSE @]
    IN  IF r.exc THEN ExceptClause(s, tok)
        ELSE IF r.status = 401 /\ s.retry
             THEN [token |-> None, s |-> SendLogin(s, "L72")]
        ELSE IF r.body = NonJson THEN [token |-> tok, s |-> Return(s, EmptySnapshot)]
        ELSE IF ~IsDict(r.body) \/ "frontdata" \notin DOMAIN r.body.d
             THEN IF s.retry
                  THEN [token |-> None, s |-> EnterFetch(s, None, FALSE, "try")]
                  ELSE [token |-> tok, s |-> Return(s, EmptySnapshot)]
        ELSE IF ParseRaises(r.body) THEN ExceptClause(s, tok)
        ELSE [token |-> tok, s |-> Return(s, RetDict(_parse_response(r.body)))]

\* AfterWrite with the 401 handling of fetch_data: drop the token, log in,
\* write again
AfterWrite_retry(s0, tok, r) ==
    LET s == [s0 EXCEPT !.reply = r,
                        !.rejected = IF ~r.exc /\ r.status = 401
                                     THEN @ \cup {s0.req.token} ELSE @]
    IN  IF ~r.exc /\ r.status = 401 /\ s.writes < 2
        THEN [token |-> None, s |-> SendLogin(s, "L140")]
        ELSE [token |-> tok, s |-> Return(s, RetBool(WriteResult(r)))]

\* set_param from the reply of the write request on: the token is left
\* as it is and nothing is sent again
AfterWrite(s0, tok, r) ==
    LET s == [s0 EXCEPT !.reply = r,
                        !.rejected = IF ~r.exc /\ r.status = 401
                                     THEN @ \cup {s0.req.token} ELSE @]
    IN  [token |-> tok, s |-> Return(s, RetBool(WriteResult(r)))]

(* ------------------------- the operations ------------------------------ *)

Init ==
    /\ token = None
    /\ issued = 0
    /\ task = [p \in Tasks |-> IdleTask]

CanStart(p) == task[p].pc \in {"idle", "done"}

\* await client.fetch_data()
fetch_data(p) ==
    /\ CanStart(p)
    /\ task' = [task EXCEPT ![p] = EnterFetch(NewCall("fetch_data", token), token, TRUE, "none")]
    /\ UNCHANGED <<token, issued>>

\* await client.get_consumption(query_string)
get_consumption(p, query_string) ==
    /\ CanStart(p)
    /\ LET s == [NewCall("get_consumption", token) EXCEPT !.query = query_string]
       IN  task' = [task EXCEPT ![p] =
                      IF not_token(token) THEN SendLogin(s, "L113")
                      ELSE SendConsumption(s, token)]
    /\ UNCHANGED <<token, issued>>

\* await client.set_param(read_key, value)
set_param(p, read_key, value) ==
    /\ CanStart(p)
    /\ LET s == [NewCall("set_param", token) EXCEPT !.key = read_key, !.value = value]
       IN  task' = [task EXCEPT ![p] =
                      IF not_token(token) THEN SendLogin(s, "L140")
                      ELSE SetParamBody(s, token)]
    /\ UNCHANGED <<token, issued>>

\* the login reply r arrives: the rest of _refresh_token, then the caller
\* runs on to its next request or to its return
LoginReply(p, r) ==
    /\ task[p].pc = "login"
    /\ LET out == _refresh_token(token, r)
           ok == ~r.exc /\ IsDict(r.body) /\ DictGet(r.body, "token").t = "tok"
           s == [task[p] EXCEPT !.lbefore = token, !.lreply = r, !.lafter = out.token,
                                !.loginOK = IF ok THEN @ + 1 ELSE @,
                                !.hist = Append(@, LoginTag(ok))]
       IN  /\ token' = out.token
           /\ issued' = IF ok THEN issued + 1 ELSE issued
           /\ task' = [task EXCEPT ![p] =
                         IF out.raised THEN Raise(s) ELSE AfterLogin(s, out.token)]

LoginReturn(p) == \E r \in LoginReplies(issued) : LoginReply(p, r)

\* the reply r of controllerdata2.php arrives
PrimaryReply(p, r) ==
    /\ task[p].pc = "primary"
    /\ LET out == AfterPrimary(task[p], token, r)
       IN  /\ token' = out.token
           /\ task' = [task EXCEPT ![p] = out.s]
    /\ UNCHANGED issued

PrimaryReturn(p) == \E r \in PrimaryReplies : PrimaryReply(p, r)

\* the async_timeout.timeout(20) block of the top-level fetch_data frame
\* expires while that frame awaits the login of its 401 branch or the
\* nested fetch_data: the pending await is cancelled, the block raises
\* TimeoutError and the frame's except clause runs with retry = True
OuterTimeout(p) ==
    /\ task[p].op = "fetch_data"
    /\ task[p].pc \in {"login", "primary"}
    /\ task[p].site = "L72" \/ task[p].outer = "try"
    /\ LET out == ExceptClause([task[p] EXCEPT !.retry = TRUE, !.outer = "none",
                                               !.hist = Append(@, "T")], token)
       IN  /\ token' = out.token
           /\ task' = [task EXCEPT ![p] = out.s]
    /\ UNCHANGED issued

\* the reply r of getconsumption.php arrives
ConsumptionReply(p, r) ==
    /\ task[p].pc = "consumption"
    /\ task' = [task EXCEPT ![p] = Return([task[p] EXCEPT !.reply = r], ConsumptionResult(r))]
    /\ UNCHANGED <<token, issued>>

ConsumptionReturn(p) == \E r \in ConsumptionReplies : ConsumptionReply(p, r)

\* the reply r of updatevalue.php arrives
WriteReply(p, r) ==
    /\ task[p].pc = "write"
    /\ LET out == AfterWrite(task[p], token, r)
       IN  /\ token' = out.token
           /\ task' = [task EXCEPT ![p] = out.s]
    /\ UNCHANGED issued

WriteReturn(p) == \E r \in WriteReplies : WriteReply(p, r)

Step(p) ==
    \/ fetch_data(p)
    \/ \E q \in Queries : get_consumption(p, q)
    \/ \E k \in Keys, v \in Values : set_param(p, k, v)
    \/ LoginReturn(p)
    \/ PrimaryReturn(p)
    \/ OuterTimeout(p)
    \/ ConsumptionReturn(p)
    \/ WriteReturn(p)

\* one operation at a time on the client
Next == Step(MainTask)

Spec == Init /\ [][Next]_vars

(* ------------------------- overlapping operations --------------------- *)

\* the replies and arguments used when several coroutines share the client:
\* one of each kind the code tells apart
ConcLoginReplies(n) ==
    {Reply(200, JDict([success |-> JBool(FALSE)]))}
      \cup (IF n < MaxTokens THEN {Reply(200, JDict([token |-> JTok(n + 1)]))} ELSE {})
ConcPrimaryReplies ==
    {Reply(401, JList(<<>>)), Reply(200, JList(<<>>)),
     Reply(200, JDict(("frontdata" :> BaseFront) @@ BaseMisc))}
ConcConsumptionReplies == {Reply(200, JList(<<JNum(1)>>))}
ConcWriteReplies == {Reply(200, JStr(Str_OK)), Reply(401, JStr(Str_error))}

LoginReturnConc(p) == \E r \in ConcLoginReplies(issued) : LoginReply(p, r)

StepConc(p) ==
    \/ fetch_data(p)
    \/ get_consumption(p, Str_months12)
    \/ set_param(p, Str_igniter, Finite(5050))
    \/ LoginReturnConc(p)
    \/ \E r \in ConcPrimaryReplies : PrimaryReply(p, r)
    \/ OuterTimeout(p)
    \/ \E r \in ConcConsumptionReplies : ConsumptionReply(p, r)
    \/ \E r \in ConcWriteReplies : WriteReply(p, r)

\* the coroutines interleave at their network suspension points
NextConc == \E p \in Tasks : StepConc(p)

SpecConc == Init /\ [][NextConc]_vars

(* ------------------------- properties ---------------------------------- *)

Done(p, opname) == task[p].pc = "done" /\ task[p].op = opname

\* the login reply is a JSON object carrying a non-empty token
IsTokenObject(r) ==
    /\ ~r.exc
    /\ r.body.t = "dict"
    /\ "token" \in DOMAIN r.body.d
    /\ r.body.d["token"].t = "tok"

C2_AtMostTwoLogins ==
    \A p \in Tasks : task[p].op = "fetch_data" => task[p].logins <= 2

\* C3: one fetch_data call sends at most two primary requests
C3_AtMostTwoPrimaries ==
    \A p \in Tasks : task[p].op = "fetch_data" => task[p].primaries <= 2

\* C4: when a call returns, no token that was sent in a request answered
\* with 401, with a non-object root or without 'frontdata' is still stored
C4_RejectedTokenDropped ==
    \A p \in Tasks : task[p].pc = "done" => token \notin task[p].rejected

\* C5: a login started with no token ends with a token stored exactly when
\* the reply is an object with a non-empty token, and a login that leaves
\* no token raises nothing
C5_LoginFailureStaysNoToken ==
    \A p \in Tasks :
        task[p].logins >= 1 /\ ~Truthy(task[p].lbefore)
        => /\ Truthy(task[p].lafter) <=> IsTokenObject(task[p].lreply)
           /\ ~Truthy(task[p].lafter) => ~task[p].raised

C5_Witness ==
    \E p \in Tasks :
        /\ task[p].pc = "done" /\ task[p].logins = 1
        /\ ~task[p].lreply.exc /\ task[p].lreply.body = JNull
        /\ ~Truthy(task[p].lafter) /\ ~Truthy(token) /\ ~task[p].raised

\* C6: fetch_data returns a mapping and get_consumption a sequence, neither
\* raises, and the sequence is empty when no request was sent, the request
\* failed, the status is not 200 or the body is not a JSON list
C6_AlwaysCollection ==
    \A p \in Tasks :
        /\ Done(p, "fetch_data") => ~task[p].raised /\ task[p].ret.type = "dict"
        /\ Done(p, "get_consumption")
           => /\ ~task[p].raised
              /\ task[p].ret.type = "list"
              /\ \/ task[p].req.kind = "none"
                 \/ task[p].reply.exc
                 \/ task[p].reply.status # 200
                 \/ task[p].reply.body.t # "list"
                 => task[p].ret.val = <<>>

C6_Witness ==
    \E p \in Tasks :
        /\ Done(p, "get_consumption") /\ task[p].req.kind = "getconsumption"
        /\ ~task[p].reply.exc /\ task[p].reply.status = 500
        /\ task[p].reply.body = JList(<<JNum(1)>>)
        /\ task[p].ret = RetList(<<>>)

\* C7: set_param returns a boolean and never raises, whatever the value
C7_SetParamNeverRaises ==
    \A p \in Tasks :
        Done(p, "set_param") => ~task[p].raised /\ task[p].ret.type = "bool"

\* C8: one set_param call sends at most one write request and at most one
\* login request, the login only when it started without a token, and a
\* write answered with 401 or without the success text returns False
C8_WriteNeverRetries ==
    \A p \in Tasks :
        task[p].op = "set_param"
        => /\ task[p].writes <= 1
           /\ task[p].logins <= 1
           /\ task[p].logins = 1 => ~Truthy(task[p].startTok)
           /\ /\ task[p].pc = "done" /\ task[p].writes = 1
              /\ \/ task[p].reply.exc
                 \/ task[p].reply.status = 401
                 \/ ~Contains(Str_OK, Upper(task[p].reply.body.s))
              => task[p].ret = RetBool(FALSE)

C8_Witness ==
    \E p \in Tasks :
        /\ Done(p, "set_param") /\ Truthy(task[p].startTok)
        /\ ~task[p].reply.exc /\ task[p].reply.status = 401
        /\ task[p].writes = 1 /\ task[p].logins = 0
        /\ task[p].ret = RetBool(FALSE)

\* C9: the write request of set_param("dhwwanted", v) carries
\* menu = "hot_water" and name = "hot_water.temp"
C9_DhwTarget ==
    \A p \in Tasks :
        /\ task[p].op = "set_param" /\ task[p].req.kind = "updatevalue"
        /\ task[p].key = Str_dhwwanted
        => task[p].req.menu = Str_hot_water /\ task[p].req.name = Str_hot_water_temp

TableKeys ==
    {Str_dhwwanted, Str_wantedboilertemp, Str_regulation_max_power,
     Str_regulation_min_power, Str_ignition_pellets}

\* C10: for a key outside the table the write request carries name = key
\* and menu = the text before the first '.', or the key when it has no '.'
C10_FallbackTarget ==
    \A p \in Tasks :
        /\ task[p].op = "set_param" /\ task[p].req.kind = "updatevalue"
        /\ task[p].key \notin TableKeys
        => LET k == task[p].key
               dots == {i \in 1..Len(k) : k[i] = "."}
           IN  /\ task[p].req.name = k
               /\ dots = {} => task[p].req.menu = k
               /\ \A i \in dots :
                    (\A j \in dots : i <= j) => task[p].req.menu = SubSeq(k, 1, i - 1)
               /\ k = Str_fan_speed => task[p].req.menu = Str_fan
               /\ k = Str_igniter => task[p].req.menu = Str_igniter

C10_Witness ==
    \E p \in Tasks :
        /\ task[p].op = "set_param" /\ task[p].req.kind = "updatevalue"
        /\ task[p].key = Str_fan_speed
        /\ task[p].req.menu = Str_fan /\ task[p].req.name = Str_fan_speed

\* C11: set_param returns True exactly when the reply has status 200 and
\* its text holds "OK" in any case or a status marker "status":"0" / "status":0
C11_SuccessIffMarker ==
    \A p \in Tasks :
        Done(p, "set_param") /\ task[p].writes = 1
        => (task[p].ret = RetBool(TRUE)
            <=> /\ ~task[p].reply.exc
                /\ task[p].reply.status = 200
                /\ \/ Contains(Str_OK, Upper(task[p].reply.body.s))
                   \/ Contains(Str_status0s, task[p].reply.body.s)
                   \/ Contains(Str_status0, task[p].reply.body.s))

\* a primary reply other than 401 whose root is an object with 'frontdata'
RootedReply(r) ==
    ~r.exc /\ r.status # 401 /\ r.body.t = "dict" /\ "frontdata" \in DOMAIN r.body.d

\* C12: once a primary reply with an object root and 'frontdata' is in,
\* whatever the shape of its sections, the call is over with a non-empty
\* snapshot and the token of the request still stored
C12_SectionShapeAbsorbed ==
    \A p \in Tasks :
        /\ task[p].op = "fetch_data" /\ task[p].hist # <<>>
        /\ task[p].hist[Len(task[p].hist)] = "P" /\ RootedReply(task[p].reply)
        => /\ task[p].pc = "done" /\ ~task[p].raised
           /\ task[p].ret # EmptySnapshot
           /\ token = task[p].req.token

\* the primary reply of the end-to-end scenario
ScenarioReply ==
    Reply(200, JDict([frontdata |-> JList(<<JDict([id |-> JStr(Str_boilertemp),
                                                   value |-> JStr(Str_62c3)])>>),
                      miscdata |-> JDict([state |-> JDict([value |-> JStr(Str_Heating)])])]))

\* C13: login accepted, the scenario reply received: the snapshot has
\* boiler temperature 62.3, state "Heating" and the 13 auxiliary section keys
C13_EndToEnd ==
    \A p \in Tasks :
        /\ Done(p, "fetch_data") /\ ~Truthy(task[p].startTok)
        /\ task[p].logins = task[p].loginOK /\ task[p].reply = ScenarioReply
        => /\ task[p].ret # EmptySnapshot
           /\ task[p].ret.val.boiler_temp = 6230
           /\ task[p].ret.val.state = JStr(Str_Heating)
           /\ Cardinality(DOMAIN task[p].ret.val.attributes) >= 13

\* C14: a call that returns a snapshot has sent the auxiliary section
\* requests after the primary one and holds their 13 keys in attributes
C14_AuxSectionsFetched ==
    \A p \in Tasks :
        Done(p, "fetch_data") /\ task[p].ret # EmptySnapshot
        => /\ task[p].req.kind # "controllerdata2"
           /\ Cardinality(DOMAIN task[p].ret.val.attributes) >= 13

Sentinels == {JNull, JStr(<<>>), JStr(Str_NA), JStr(Str_None)}

\* C15: a sentinel boiler temperature (null, "", "N/A", "None") is absent
\* in the snapshot, not 0
C15_SentinelAbsent ==
    \A p \in Tasks :
        /\ Done(p, "fetch_data") /\ task[p].ret # EmptySnapshot
        /\ DictGet(DictGet(task[p].reply.body, "frontdata"), "boilertemp") \in Sentinels
        => task[p].ret.val.boiler_temp # 0

\* the section raw, a flat mapping, against its normalized form out
PassedThrough(raw, out) ==
    /\ DOMAIN out.d = DOMAIN raw.d
    /\ \A k \in DOMAIN raw.d :
         out.d[k] = IF raw.d[k] = JStr(Str_NA) THEN JNull ELSE raw.d[k]

\* C16: a section that arrives as a flat mapping keeps its keys and its
\* values in the snapshot, "N/A" values becoming absent
C16_FlatMappingPassThrough ==
    \A p \in Tasks :
        Done(p, "fetch_data") /\ task[p].ret # EmptySnapshot
        => LET body == task[p].reply.body
               att == task[p].ret.val.attributes
           IN  /\ PassedThrough(DictGet(body, "frontdata"), att.front)
               /\ IsDict(DictGet(body, "boilerdata"))
                  => PassedThrough(DictGet(body, "boilerdata"), att.boiler)

SuspendedAt == {"login", "primary", "consumption", "write"}

\* C17: while a coroutine is suspended in a call, no step of another
\* coroutine changes the stored token
C17_TokenStableWhileSuspended ==
    [][\A q \in Tasks :
         task[q].pc \in SuspendedAt /\ task'[q] = task[q] => token' = token]_vars

\* a 200 reply with an object root, 'frontdata' a mapping and 'miscdata',
\* when present, a mapping
WellFormed200(r) ==
    /\ ~r.exc /\ r.status = 200 /\ r.body.t = "dict"
    /\ "frontdata" \in DOMAIN r.body.d /\ r.body.d["frontdata"].t = "dict"
    /\ "miscdata" \in DOMAIN r.body.d => r.body.d["miscdata"].t = "dict"

\* C18: stored token answered with 401, login accepted, well-formed reply:
\* a non-empty snapshot after one login and two primary requests, the
\* second with the new token, which is the stored one on return
C18_RecoveryAfter401 ==
    \A p \in Tasks :
        /\ Done(p, "fetch_data") /\ Truthy(task[p].startTok)
        /\ task[p].hist = <<"P401", "Lok", "P">> /\ WellFormed200(task[p].reply)
        => /\ task[p].ret # EmptySnapshot /\ ~task[p].raised
           /\ task[p].logins = 1 /\ task[p].primaries = 2
           /\ Truthy(task[p].lafter) /\ task[p].lafter # task[p].startTok
           /\ task[p].req.token = task[p].lafter
           /\ token = task[p].lafter

C18_Witness ==
    \E p \in Tasks :
        /\ Done(p, "fetch_data") /\ Truthy(task[p].startTok)
        /\ task[p].hist = <<"P401", "Lok", "P">> /\ WellFormed200(task[p].reply)
        /\ task[p].ret # EmptySnapshot /\ token = task[p].req.token
        /\ token # task[p].startTok

\* C19: a non-empty snapshot never comes from a primary reply with status 401
C19_No401Parsed ==
    \A p \in Tasks :
        Done(p, "fetch_data") /\ task[p].ret # EmptySnapshot
        => task[p].reply.status # 401

DataWait == {"primary", "consumption", "write"}

\* C20: every data request carries a non-empty token, and it is the token
\* stored when the request is built
C20_RequestsCarryToken ==
    /\ [](\A p \in Tasks : task[p].req.kind # "none" => Truthy(task[p].req.token))
    /\ [][\A p \in Tasks :
            task'[p] # task[p] /\ task'[p].pc \in DataWait
            => /\ Truthy(token') /\ task'[p].req.token = token'
               /\ task'[p].pc = "consumption"
                  => task'[p].req.params[Str_token] = JTok(token')]_vars

C20_Witness ==
    \E p, q \in Tasks :
        /\ task[p].pc = "primary" /\ task[q].pc = "write"
        /\ Truthy(task[p].req.token) /\ Truthy(task[q].req.token)
        /\ task[p].req.token # task[q].req.token

====
